---- MODULE Spec2Model ----
(***************************************************************************)
(* Model of MoviePilot-Server (src/main.py): the statistic counters kept   *)
(* in the PLUGIN_STATISTICS / SUBSCRIBE_STATISTICS tables and the process- *)
(* wide StatisticCache in front of the two statistic queries.              *)
(*                                                                         *)
(* Every handler is a plain `def`, so the framework runs each request on   *)
(* its own worker thread with its own database session (get_db).  A        *)
(* request is therefore a process whose steps are its persistence and      *)
(* cache calls; the steps of different requests interleave freely.         *)
(***************************************************************************)
EXTENDS Integers, Sequences, FiniteSets, TLC

(***************************************************************************)
(* Bounds of the model.                                                    *)
(***************************************************************************)
MaxReqs == 3      \* request slots (requests whose outcome is kept)
MaxThreads == 2   \* worker threads: requests handled at the same time
MaxServed == 3    \* requests accepted in one behaviour
MaxTime == 2      \* last clock value the timer reaches
CacheTtl == 1     \* ttl of StatisticCache, scaled down from 1800 s
CacheMaxsize == 2 \* maxsize of StatisticCache, scaled down from 100

Reqs == 1..MaxReqs

(***************************************************************************)
(* Python values.  Optional[int] / Optional[str] fields are tagged so that *)
(* `a or b` and `==` can be computed as Python computes them.              *)
(***************************************************************************)
PyNone == [t |-> "None", i |-> 0, s |-> ""]
PyInt(n) == [t |-> "int", i |-> n, s |-> ""]
PyStr(x) == [t |-> "str", i |-> 0, s |-> x]

\* bool(v) of an Optional[int] / Optional[str]: None, 0 and "" are falsy.
Truthy(v) == \/ (v.t = "int" /\ v.i # 0)
             \/ (v.t = "str" /\ v.s # "")

\* Python's `a or b`: a when a is truthy, else b.
PyOr(a, b) == IF Truthy(a) THEN a ELSE b

\* No ORM object (read() found nothing, or the request has not read yet).
NoRow == [id |-> 0]

(***************************************************************************)
(* Inputs.                                                                 *)
(***************************************************************************)
PluginIds == {"x", "y"}

\* SubscribeStatistic payloads (name stands for the descriptive attributes).
Matrix == [name |-> "Matrix", type |-> "movie", tmdbid |-> PyInt(603),
           doubanid |-> PyNone, season |-> PyInt(1)]
Douban == [name |-> "Drama", type |-> "tv", tmdbid |-> PyNone,
           doubanid |-> PyStr("d35"), season |-> PyNone]
Subscribes == {Matrix, Douban}

\* payloads that share or nearly share an identity with Matrix: the same
\* tmdbid under another name and with a doubanid as well, that doubanid
\* alone, that doubanid next to tmdbid 0, another season, and no id at all
Reloaded == [Matrix EXCEPT !.name = "Reloaded", !.doubanid = PyStr("d35")]
Drama == [Douban EXCEPT !.season = PyInt(1)]
Zero == [Drama EXCEPT !.name = "Zero", !.tmdbid = PyInt(0)]
Season2 == [Matrix EXCEPT !.season = PyInt(2)]
Nameless == [Douban EXCEPT !.name = "Nameless", !.doubanid = PyNone]
IdentitySubscribes == {Matrix, Reloaded, Drama, Zero, Season2, Nameless}

VARIABLES
  plugins,   \* rows of PluginStatistics: [id, plugin_id, count]
  subs,      \* rows of SubscribeStatistics: [id, name, ..., season, count]
  nextId,    \* next primary key handed out by the database
  cache,     \* StatisticCache: entries [key, value, expires], oldest first
  now,       \* the cache's timer
  pc,        \* pc[r]: where request r is in its handler
  op,        \* op[r]: the request (handler and parameters)
  local,     \* local[r]: the ORM object `plugin` / `sub` read by the handler
  stats,     \* stats[r]: `statistics` loaded by a statistic query
  result,    \* result[r]: what the handler returned
  before,    \* before[r]: the requests that had returned when r arrived
  seen,      \* seen[r]: the cache entry a query found at its first lookup
  lastWrite, \* the timer's value when a table last changed
  served,    \* number of requests accepted so far
  lru,       \* the cached keys, least recently read or stored first
  todo       \* todo[r]: the items a batch handler's loop has yet to report

vars == <<plugins, subs, nextId, cache, now, pc, op, local, stats, result,
          before, seen, lastWrite, served, lru, todo>>
store == <<plugins, subs, nextId>>

(***************************************************************************)
(* Persistence (models.py is not part of the sources at hand; these        *)
(* operators follow the data model and the persistence interface of the    *)
(* specification: keyed rows, point lookup, update, delete, listing).      *)
(***************************************************************************)
\* PluginStatistics.read(db, pid): the row with that plugin_id, or None.
PluginStatistics_read(table, pid) ==
  IF \E r \in table : r.plugin_id = pid
  THEN CHOOSE r \in table : /\ r.plugin_id = pid
                            /\ \A q \in table : q.plugin_id = pid => r.id <= q.id
  ELSE NoRow

\* resolved media id of a stored row: the first non-empty catalog id
RowMid(r) == PyOr(r.tmdbid, r.doubanid)

\* SubscribeStatistics.read(db, mid, season): lookup by (mediaId, season).
SubscribeStatistics_read(table, mid, season) ==
  IF \E r \in table : RowMid(r) = mid /\ r.season = season
  THEN CHOOSE r \in table : /\ RowMid(r) = mid /\ r.season = season
                            /\ \A q \in table :
                                 (RowMid(q) = mid /\ q.season = season) => r.id <= q.id
  ELSE NoRow

PluginKeyFree(table, pid) == \A r \in table : r.plugin_id # pid
SubscribeKeyFree(table, mid, season) ==
  \A r \in table : ~(RowMid(r) = mid /\ r.season = season)

\* A create() that inserts whatever it is given (no unique key).
PluginStatistics_create_dup(table, row) == table \cup {row}
\* create(db) of a plugin row.  plugin_id is the table's unique key: the
\* insert of a second row with the same plugin_id is rejected, the table is
\* left as it was and the error reaches the handler.
PluginStatistics_create(table, row) ==
  IF PluginKeyFree(table, row.plugin_id) THEN table \cup {row} ELSE table

\* A create() that inserts whatever it is given (no unique identity).
SubscribeStatistics_create_dup(table, row) == table \cup {row}
\* create(db) of a subscribe row.  (mediaId, season) is unique among the
\* live rows: a second row with the same identity is rejected.
SubscribeStatistics_create(table, row) ==
  IF SubscribeKeyFree(table, RowMid(row), row.season) THEN table \cup {row} ELSE table

\* update(db, {"count": c}) of the row held by the ORM object with this id;
\* a row deleted in the meantime is not brought back.
UpdateCount(table, id, c) ==
  {IF r.id = id THEN [r EXCEPT !.count = c] ELSE r : r \in table}

\* delete(db, id)
DeleteRow(table, id) == {r \in table : r.id # id}

(***************************************************************************)
(* Requests.                                                               *)
(***************************************************************************)
ReportOps ==
  {[kind |-> "plugin_install", pid |-> p] : p \in PluginIds}
  \cup {[kind |-> k, subscribe |-> sb] :
          k \in {"subscribe_add", "subscribe_done"}, sb \in Subscribes}

\* the reports sent while the statistic queries are watched
WatchedReportOps ==
  {o \in ReportOps : IF o.kind = "plugin_install" THEN o.pid = "x"
                                                 ELSE o.subscribe = Matrix}

\* the batch reports: PluginInstallList.plugins, List[SubscribeStatistic]
BatchOps ==
  {[kind |-> "plugin_batch_install",
    items |-> <<[plugin_id |-> "x"], [plugin_id |-> "y"]>>],
   [kind |-> "subscribe_report", items |-> <<Matrix, Douban>>]}
IsBatch(o) == o.kind \in {"plugin_batch_install", "subscribe_report"}
\* what the handler's `for` loop iterates over
Items(o) == IF IsBatch(o) THEN o.items ELSE <<>>

NoOp == [kind |-> "none"]

\* what a handler hands back: {"message": "success"}, an exception, or (for
\* the statistic queries) a cached value
Success == [tag |-> "success"]
Failure == [tag |-> "error"]
NotReturned == [tag |-> "none"]
\* `statistics` before the query has loaded it
Unset == [tag |-> "unset"]
NotSeen == [live |-> FALSE, value |-> [tag |-> "unseen"], expires |-> 0]
Returned(r) == pc[r] \in {"done", "error"}

Init ==
  /\ plugins = {}
  /\ subs = {}
  /\ nextId = 1
  /\ cache = <<>>
  /\ now = 0
  /\ pc = [r \in Reqs |-> "idle"]
  /\ op = [r \in Reqs |-> NoOp]
  /\ local = [r \in Reqs |-> NoRow]
  /\ stats = [r \in Reqs |-> Unset]
  /\ result = [r \in Reqs |-> NotReturned]
  /\ before = [r \in Reqs |-> {}]
  /\ seen = [r \in Reqs |-> NotSeen]
  /\ lastWrite = 0
  /\ served = 0
  /\ lru = <<>>
  /\ todo = [r \in Reqs |-> <<>>]

\* A report arrives and is handed to a worker thread.  Requests are numbered
\* in their order of arrival.
\* slot r can take a request: it is unused, or (when the worker threads'
\* slots are reused) it is a worker's slot and its last request has returned
Free(r, reuse) ==
  IF reuse THEN r <= MaxThreads /\ (pc[r] = "idle" \/ Returned(r))
  ELSE pc[r] = "idle"
InFlight == {r \in Reqs : pc[r] # "idle" /\ ~Returned(r)}

\* A request arrives and a free worker thread starts its handler.  The
\* request takes the lowest free slot, so without reuse the slots are
\* numbered in the order of arrival, and `before` keeps the real-time order.
Call(r, ops, first, reuse) ==
  /\ served < MaxServed
  /\ Cardinality(InFlight) < MaxThreads
  /\ Free(r, reuse)
  /\ \A q \in 1..(r - 1) : ~Free(q, reuse)
  /\ \E o \in ops : /\ op' = [op EXCEPT ![r] = o]
                     /\ todo' = [todo EXCEPT ![r] = Items(o)]
  /\ pc' = [pc EXCEPT ![r] = first]
  /\ result' = [result EXCEPT ![r] = NotReturned]
  /\ before' = IF reuse THEN before
               ELSE [before EXCEPT ![r] = {q \in Reqs : Returned(q)}]
  /\ served' = served + 1
  /\ UNCHANGED <<store, cache, now, local, stats, seen, lastWrite, lru>>

CallReport(r) == Call(r, ReportOps, "read", FALSE)
CallWatchedReport(r) == Call(r, WatchedReportOps, "read", TRUE)

\* the handler returns {"message": "success"}, or the exception leaves it
IsQuery(o) == o.kind \in {"plugin_statistic", "subscribe_statistic"}

Leave(r, ok, value) ==
  /\ pc' = [pc EXCEPT ![r] = IF ok THEN "done" ELSE "error"]
  /\ result' = [result EXCEPT ![r] = value]
  /\ local' = [local EXCEPT ![r] = NoRow]
  /\ stats' = [stats EXCEPT ![r] = Unset]
  /\ seen' = [seen EXCEPT ![r] = NotSeen]
  /\ todo' = [todo EXCEPT ![r] = <<>>]
  /\ op' = op
Return(r, ok) == Leave(r, ok, IF ok THEN Success ELSE Failure)

\* One report of a handler is over.  A batch handler's `for` loop goes on
\* with its next item; a single report, the last item of a batch, or an
\* exception leaves the handler.
Finish(r, ok) ==
  IF ok /\ Len(todo[r]) > 1
  THEN /\ pc' = [pc EXCEPT ![r] = "read"]
       /\ todo' = [todo EXCEPT ![r] = Tail(todo[r])]
       /\ local' = [local EXCEPT ![r] = NoRow]
       /\ UNCHANGED <<op, stats, result, seen>>
  ELSE Return(r, ok)

\* a write that also clears the statistic cache
Persist_invalidates(newPlugins, newSubs) ==
  /\ plugins' = newPlugins
  /\ subs' = newSubs
  /\ lastWrite' = IF newPlugins # plugins \/ newSubs # subs THEN now ELSE lastWrite
  /\ cache' = <<>>
  /\ lru' = <<>>
\* the tables after a write, and the time of the change; the handlers' writes
\* are persistence calls only, StatisticCache is not mentioned in them
Persist(newPlugins, newSubs) ==
  /\ plugins' = newPlugins
  /\ subs' = newSubs
  /\ lastWrite' = IF newPlugins # plugins \/ newSubs # subs THEN now ELSE lastWrite
  /\ UNCHANGED <<cache, lru>>

(***************************************************************************)
(* plugin_install                                                          *)
(***************************************************************************)
\* the pid plugin_install is called with: the path parameter, or
\* plugin.plugin_id of the batch item plugin_batch_install has reached
Pid(r) == IF op[r].kind = "plugin_install" THEN op[r].pid ELSE Head(todo[r]).plugin_id
InstallsPlugin(r) == op[r].kind \in {"plugin_install", "plugin_batch_install"}

\* plugin = PluginStatistics.read(db, pid)
plugin_install_read(r) ==
  /\ pc[r] = "read"
  /\ InstallsPlugin(r)
  /\ local' = [local EXCEPT ![r] = PluginStatistics_read(plugins, Pid(r))]
  /\ pc' = [pc EXCEPT ![r] = "write"]
  /\ UNCHANGED <<store, cache, now, op, stats, result, before, seen, lastWrite, served, lru, todo>>

\* the count plugin_install writes for a row it found: plugin.count + 1
plugin_install_count(count) == count + 1

\* if not plugin: create(count=1) else: update(count = plugin.count + 1)
plugin_install_write(r) ==
  /\ pc[r] = "write"
  /\ InstallsPlugin(r)
  /\ IF local[r] = NoRow
     THEN LET row == [id |-> nextId, plugin_id |-> Pid(r), count |-> 1]
              table == PluginStatistics_create(plugins, row)
          IN /\ Persist(table, subs)
             /\ nextId' = IF row \in table THEN nextId + 1 ELSE nextId
             /\ Finish(r, row \in table)
     ELSE /\ Persist(UpdateCount(plugins, local[r].id,
                                 plugin_install_count(local[r].count)), subs)
          /\ nextId' = nextId
          /\ Finish(r, TRUE)
  /\ UNCHANGED <<now, before, served>>

(***************************************************************************)
(* subscribe_add / subscribe_done                                          *)
(***************************************************************************)
\* a resolution that prefers the doubanid
Mid_douban(subscribe) == PyOr(subscribe.doubanid, subscribe.tmdbid)
\* mid=subscribe.tmdbid or subscribe.doubanid
Mid(subscribe) == PyOr(subscribe.tmdbid, subscribe.doubanid)

\* sub = SubscribeStatistics.read(db, mid=..., season=subscribe.season)
\* the `subscribe` the handler works on: the request body, or the batch
\* item subscribe_report has reached
Subscribe(r) == IF op[r].kind = "subscribe_report" THEN Head(todo[r]) ELSE op[r].subscribe
AddsSubscribe(r) == op[r].kind \in {"subscribe_add", "subscribe_report"}

subscribe_read(r) ==
  /\ pc[r] = "read"
  /\ AddsSubscribe(r) \/ op[r].kind = "subscribe_done"
  /\ local' = [local EXCEPT ![r] =
        SubscribeStatistics_read(subs, Mid(Subscribe(r)), Subscribe(r).season)]
  /\ pc' = [pc EXCEPT ![r] = "write"]
  /\ UNCHANGED <<store, cache, now, op, stats, result, before, seen, lastWrite, served, lru, todo>>

\* SubscribeStatistics(**subscribe.dict(), count=1)
NewSubscribeRow(id, subscribe) ==
  [id |-> id, name |-> subscribe.name, type |-> subscribe.type,
   tmdbid |-> subscribe.tmdbid, doubanid |-> subscribe.doubanid,
   season |-> subscribe.season, count |-> 1]

\* the count subscribe_add writes for a row it found: sub.count + 1
subscribe_add_count_keep(count) == count
subscribe_add_count(count) == count + 1

\* if not sub: create(count=1) else: update(count = sub.count + 1)
\* an update that also rewrites the row's attributes from the report
subscribe_add_update_refresh(table, sub, subscribe) ==
  {IF row.id = sub.id
   THEN [NewSubscribeRow(row.id, subscribe) EXCEPT !.count = subscribe_add_count(sub.count)]
   ELSE row : row \in table}
\* sub.update(db, {"count": sub.count + 1}): the count is the only column set
subscribe_add_update(table, sub, subscribe) ==
  UpdateCount(table, sub.id, subscribe_add_count(sub.count))

subscribe_add_write(r) ==
  /\ pc[r] = "write"
  /\ AddsSubscribe(r)
  /\ IF local[r] = NoRow
     THEN LET row == NewSubscribeRow(nextId, Subscribe(r))
              table == SubscribeStatistics_create(subs, row)
          IN /\ Persist(plugins, table)
             /\ nextId' = IF row \in table THEN nextId + 1 ELSE nextId
             /\ Finish(r, row \in table)
     ELSE /\ Persist(plugins, subscribe_add_update(subs, local[r], Subscribe(r)))
          /\ nextId' = nextId
          /\ Finish(r, TRUE)
  /\ UNCHANGED <<now, before, served>>

\* the count subscribe_done writes back: sub.count - 1
subscribe_done_count_same(count) == count
subscribe_done_count(count) == count - 1

\* `if sub.count <= 1` of subscribe_done
subscribe_done_deletes_below(count) == count < 1
subscribe_done_deletes(count) == count <= 1

\* if sub: if sub.count <= 1: delete(sub.id) else: update(count = sub.count - 1)
subscribe_done_write(r) ==
  /\ pc[r] = "write"
  /\ op[r].kind = "subscribe_done"
  /\ IF local[r] = NoRow
     THEN Persist(plugins, subs)
     ELSE IF subscribe_done_deletes(local[r].count)
          THEN Persist(plugins, DeleteRow(subs, local[r].id))
          ELSE Persist(plugins, UpdateCount(subs, local[r].id,
                                            subscribe_done_count(local[r].count)))
  /\ Return(r, TRUE)
  /\ UNCHANGED <<nextId, now, before, served>>

\* the create/update/delete call of the handler raises: the transaction is
\* rolled back and the exception leaves the handler
persist_fails(r) ==
  /\ pc[r] = "write"
  /\ Return(r, FALSE)
  /\ UNCHANGED <<store, cache, now, before, lastWrite, served, lru>>

PluginStep(r) == plugin_install_read(r) \/ plugin_install_write(r)
SubscribeStep(r) ==
  \/ subscribe_read(r)
  \/ subscribe_add_write(r)
  \/ subscribe_done_write(r)
ReportStep(r) == PluginStep(r) \/ SubscribeStep(r)

\* The counter store under concurrent reports.
NextStore == \E r \in Reqs : CallReport(r) \/ ReportStep(r)
SpecStore == Init /\ [][NextStore]_vars

(***************************************************************************)
(* StatisticCache = Cache(maxsize=100, ttl=1800): the cacheout store, an   *)
(* insertion-ordered mapping key -> value with one expiry time per key.    *)
(***************************************************************************)
CacheNone == [tag |-> "None"]                  \* get()'s default
\* {plugin_id: count}, as the dict's items in insertion order
DictValue(f) == [tag |-> "dict", items |-> f]
ListValue(q) == [tag |-> "list", items |-> q]  \* [ {...}, ... ]

\* bool(value) of what get() hands back: None, {} and [] are falsy
ValueTruthy(v) == IF v.tag = "None" THEN FALSE ELSE DOMAIN v.items # {}

Has(c, k) == \E i \in 1..Len(c) : c[i].key = k
Entry(c, k) == c[CHOOSE i \in 1..Len(c) : c[i].key = k]
Without(c, k) == SelectSeq(c, LAMBDA e : e.key # k)
\* expired(): the expiry time has been reached
Expired(e, t) == e.expires <= t
Live(c, k, t) == Has(c, k) /\ ~Expired(Entry(c, k), t)

\* get(key): the value of a live entry, else None ...
CacheGet(c, k, t) == IF Live(c, k, t) THEN Entry(c, k).value ELSE CacheNone
\* ... and an expired entry found by get() is deleted
CacheAfterGet(c, k, t) == IF Has(c, k) /\ ~Live(c, k, t) THEN Without(c, k) ELSE c

\* an evict() that makes room only once the store is over its size
Evict_overfull(c, t) ==
  LET live == SelectSeq(c, LAMBDA e : ~Expired(e, t))
  IN IF Len(live) > CacheMaxsize
     THEN SubSeq(live, Len(live) - CacheMaxsize + 2, Len(live))
     ELSE live
\* an evict() that drops the newest entries instead of the oldest
Evict_newest(c, t) ==
  LET live == SelectSeq(c, LAMBDA e : ~Expired(e, t))
  IN IF Len(live) >= CacheMaxsize
     THEN SubSeq(live, 1, CacheMaxsize - 1)
     ELSE live
\* evict(): drop every expired entry, then the oldest entries while full
Evict(c, t) ==
  LET live == SelectSeq(c, LAMBDA e : ~Expired(e, t))
  IN IF Len(live) >= CacheMaxsize
     THEN SubSeq(live, Len(live) - CacheMaxsize + 2, Len(live))
     ELSE live

\* The order of use of the cached keys: a get() that finds a live entry
\* and a set() both use the key; a key whose entry is gone leaves the order.
Keys(c) == {c[i].key : i \in 1..Len(c)}
Touch(l, k) == Append(SelectSeq(l, LAMBDA x : x # k), k)
LruAfterGet(l, c, k, t) ==
  IF Live(c, k, t) THEN Touch(l, k) ELSE SelectSeq(l, LAMBDA x : x # k)
LruAfterSet(l, after, k) == Touch(SelectSeq(l, LAMBDA x : x \in Keys(after)), k)

\* set(key, value): make room when the key is new, then (re)insert the key
\* as the newest entry, expiring ttl from now
CacheSet(c, k, v, t) ==
  LET probed == CacheAfterGet(c, k, t)
      room == IF Has(probed, k) THEN probed ELSE Evict(probed, t)
  IN Append(Without(room, k), [key |-> k, value |-> v, expires |-> t + CacheTtl])

(***************************************************************************)
(* The statistic queries.                                                  *)
(***************************************************************************)
SubscribeQueries ==
  {[kind |-> "subscribe_statistic", stype |-> st, page |-> 1, count |-> 2] :
     st \in {"movie", "tv"}}
QueryOps == {[kind |-> "plugin_statistic"]} \cup SubscribeQueries

\* 'plugin', f"subscribe_{stype}_{page}_{count}": page and count are
\* integers, so the formatted key determines the three parameters
CacheKey(o) ==
  IF o.kind = "plugin_statistic" THEN <<"plugin">>
  ELSE <<"subscribe", o.stype, o.page, o.count>>

\* the rows of a table in primary-key order
RECURSIVE ById(_)
ById(table) ==
  IF table = {} THEN <<>>
  ELSE LET first == CHOOSE r \in table : \A q \in table : r.id <= q.id
       IN <<first>> \o ById(table \ {first})

\* {sta.plugin_id: sta.count for sta in PluginStatistics.list(db)}
PluginMapping(table) ==
  LET rows == ById(table)
      first == SelectSeq(rows, LAMBDA r :
                 \A q \in table : q.plugin_id = r.plugin_id => r.id <= q.id)
      last(pid) == CHOOSE r \in table :
                     /\ r.plugin_id = pid
                     /\ \A q \in table : q.plugin_id = pid => q.id <= r.id
  IN DictValue([i \in 1..Len(first) |->
                  [key |-> first[i].plugin_id, value |-> last(first[i].plugin_id).count]])

\* SubscribeStatistics.list(db, stype, page, count): the rows of that type,
\* in primary-key order, cut to the page
SubscribeStatistics_list(table, stype, page, count) ==
  LET rows == ById({r \in table : r.type = stype})
      from == (page - 1) * count + 1
      to == IF page * count < Len(rows) THEN page * count ELSE Len(rows)
  IN SubSeq(rows, from, to)

\* the dict built for one row
RowDict(r) == [name |-> r.name, type |-> r.type, tmdbid |-> r.tmdbid,
               doubanid |-> r.doubanid, season |-> r.season, count |-> r.count]

SubscribeListing(table, o) ==
  LET rows == SubscribeStatistics_list(table, o.stype, o.page, o.count)
  IN ListValue([i \in 1..Len(rows) |-> RowDict(rows[i])])

\* what the query stores on a miss, loaded from the tables as they are
Loaded(o, pl, sb) ==
  IF o.kind = "plugin_statistic" THEN PluginMapping(pl) ELSE SubscribeListing(sb, o)

CallQuery(r) == Call(r, QueryOps, "get", TRUE)

\* `if not StatisticCache.get(key)`: the value is missing or falsy
statistic_miss(v) == ~ValueTruthy(v)

\* if not StatisticCache.get(cache_key):
statistic_get(r) ==
  /\ pc[r] = "get"
  /\ LET k == CacheKey(op[r])
         v == CacheGet(cache, k, now)
     IN /\ seen' = [seen EXCEPT ![r] =
                    [live |-> Live(cache, k, now), value |-> v,
                     expires |-> IF Live(cache, k, now) THEN Entry(cache, k).expires
                                 ELSE 0]]
        /\ cache' = CacheAfterGet(cache, k, now)
        /\ lru' = LruAfterGet(lru, cache, k, now)
        /\ pc' = [pc EXCEPT ![r] = IF statistic_miss(v) THEN "load" ELSE "return"]
  /\ UNCHANGED <<store, now, op, local, stats, result, before, lastWrite, served, todo>>

\* statistics = PluginStatistics.list(db) / SubscribeStatistics.list(db, ...)
statistic_load(r) ==
  /\ pc[r] = "load"
  /\ stats' = [stats EXCEPT ![r] = Loaded(op[r], plugins, subs)]
  /\ pc' = [pc EXCEPT ![r] = "set"]
  /\ UNCHANGED <<store, cache, now, op, local, result, before, seen, lastWrite, served, lru, todo>>

\* a failed load that leaves an empty entry behind
statistic_load_fails_poison(r) ==
  /\ pc[r] = "load"
  /\ Return(r, FALSE)
  /\ cache' = CacheSet(cache, CacheKey(op[r]), ListValue(<<>>), now)
  /\ lru' = LruAfterSet(lru, cache', CacheKey(op[r]))
  /\ UNCHANGED <<store, now, before, lastWrite, served>>
\* the list() call raises: the exception leaves the handler before set()
statistic_load_fails(r) ==
  /\ pc[r] = "load"
  /\ Return(r, FALSE)
  /\ UNCHANGED <<store, cache, now, before, lastWrite, served, lru>>

\* StatisticCache.set(key, {...}) / StatisticCache.set(cache_key, [...])
statistic_set(r) ==
  /\ pc[r] = "set"
  /\ cache' = CacheSet(cache, CacheKey(op[r]), stats[r], now)
  /\ lru' = LruAfterSet(lru, cache', CacheKey(op[r]))
  /\ pc' = [pc EXCEPT ![r] = "return"]
  /\ UNCHANGED <<store, now, op, local, stats, result, before, seen, lastWrite, served, todo>>

\* return StatisticCache.get(key)
statistic_return(r) ==
  /\ pc[r] = "return"
  /\ Leave(r, TRUE, CacheGet(cache, CacheKey(op[r]), now))
  /\ cache' = CacheAfterGet(cache, CacheKey(op[r]), now)
  /\ lru' = LruAfterGet(lru, cache, CacheKey(op[r]), now)
  /\ UNCHANGED <<store, now, before, lastWrite, served>>

Query(r) ==
  \/ CallQuery(r)
  \/ statistic_get(r)
  \/ statistic_load(r)
  \/ statistic_load_fails(r)
  \/ statistic_set(r)
  \/ statistic_return(r)

\* the cache's timer (time.time) advances
Tick ==
  /\ now < MaxTime
  /\ now' = now + 1
  /\ UNCHANGED <<store, cache, pc, op, local, stats, result, before, seen, lastWrite, served, lru, todo>>

\* The whole service: reports, queries and the passing of time.
Next ==
  \/ \E r \in Reqs : CallWatchedReport(r) \/ ReportStep(r)
  \/ \E r \in Reqs : Query(r)
  \/ Tick
Spec == Init /\ [][Next]_vars

\* The tables as earlier reports may have left them in server.db when the
\* service starts.
StoredPlugins == {[id |-> 1, plugin_id |-> "x", count |-> 1]}
StoredSubs == {[NewSubscribeRow(2, Matrix) EXCEPT !.count = 2]}

InitStored ==
  /\ plugins = StoredPlugins
  /\ subs = StoredSubs
  /\ nextId = 3
  /\ cache = <<>>
  /\ now = 0
  /\ pc = [r \in Reqs |-> "idle"]
  /\ op = [r \in Reqs |-> NoOp]
  /\ local = [r \in Reqs |-> NoRow]
  /\ stats = [r \in Reqs |-> Unset]
  /\ result = [r \in Reqs |-> NotReturned]
  /\ before = [r \in Reqs |-> {}]
  /\ seen = [r \in Reqs |-> NotSeen]
  /\ lastWrite = 0
  /\ served = 0
  /\ lru = <<>>
  /\ todo = [r \in Reqs |-> <<>>]

\* The statistic queries alone, over tables that no report changes.
NextQueries == (\E r \in Reqs : Query(r)) \/ Tick
SpecQueries == InitStored /\ [][NextQueries]_vars

\* The counter store under concurrent reports, over tables that earlier
\* reports have filled.
SpecStored == InitStored /\ [][NextStore]_vars

\* Single and batch reports whose persistence calls may fail.
CallBatch(r) == Call(r, WatchedReportOps \cup BatchOps, "read", FALSE)
NextBatch == \E r \in Reqs : CallBatch(r) \/ ReportStep(r) \/ persist_fails(r)
SpecBatch == Init /\ [][NextBatch]_vars

\* Subscription reports over the payloads that exercise identity resolution.
IdentityOps ==
  {[kind |-> "subscribe_add", subscribe |-> sb] : sb \in IdentitySubscribes}
  \cup {[kind |-> "subscribe_done", subscribe |-> Matrix]}
CallIdentity(r) == Call(r, IdentityOps, "read", FALSE)
NextIdentity == \E r \in Reqs : CallIdentity(r) \/ SubscribeStep(r)
SpecIdentity == Init /\ [][NextIdentity]_vars

\* Reports of every kind next to the statistic queries, within one ttl.
CallAnyReport(r) == Call(r, WatchedReportOps \cup BatchOps, "read", TRUE)
NextUntimed == \E r \in Reqs : CallAnyReport(r) \/ ReportStep(r) \/ Query(r)
SpecUntimed == Init /\ [][NextUntimed]_vars

(***************************************************************************)
(* What the store holds for one identity, and the contract of one report   *)
(* executed alone (count 0 stands for "no row").                           *)
(***************************************************************************)
PluginCount(pid) ==
  IF PluginStatistics_read(plugins, pid) = NoRow THEN 0
  ELSE PluginStatistics_read(plugins, pid).count

SubscribeCount(sb) ==
  IF SubscribeStatistics_read(subs, Mid(sb), sb.season) = NoRow THEN 0
  ELSE SubscribeStatistics_read(subs, Mid(sb), sb.season).count

SameIdentity(a, b) == Mid(a) = Mid(b) /\ a.season = b.season

ContractAdd(c) == c + 1
ContractDone(c) == IF c <= 1 THEN 0 ELSE c - 1
Contract(kind, c) == IF kind = "subscribe_done" THEN ContractDone(c) ELSE ContractAdd(c)

Quiescent == \A r \in Reqs : pc[r] = "idle" \/ Returned(r)
Succeeded(r) == pc[r] = "done"

\* the successful reports of one kind of identity
InstallsOf(pid) ==
  {r \in Reqs : Succeeded(r) /\ op[r].kind = "plugin_install" /\ op[r].pid = pid}
SubscribeCallsOf(sb) ==
  {r \in Reqs : /\ Succeeded(r)
                /\ op[r].kind \in {"subscribe_add", "subscribe_done"}
                /\ SameIdentity(op[r].subscribe, sb)}

\* The counts the calls in S can leave, started at count c and executed one
\* at a time in any total order that keeps the real-time order `before`.
RECURSIVE Linearizations(_, _)
Linearizations(S, c) ==
  IF S = {} THEN {c}
  ELSE UNION {Linearizations(S \ {r}, Contract(op[r].kind, c)) :
                r \in {q \in S : before[q] \cap S = {}}}

\* request r is about to write and nothing has touched its row since it read
PluginUndisturbed(r) ==
  /\ pc[r] = "write" /\ op[r].kind = "plugin_install"
  /\ local[r] = PluginStatistics_read(plugins, op[r].pid)
SubscribeUndisturbed(r, kind) ==
  /\ pc[r] = "write" /\ op[r].kind = kind
  /\ local[r] = SubscribeStatistics_read(subs, Mid(op[r].subscribe), op[r].subscribe.season)
Writes(r) == pc[r] = "write" /\ pc'[r] \in {"done", "error"}

\* the requests so far ran strictly one after the other
Sequential == \A r \in Reqs : pc[r] # "idle" => \A q \in 1..(r - 1) : q \in before[r]
\* request r was `kind` on payload sb and has returned successfully
Was(r, kind, sb) == Succeeded(r) /\ op[r].kind = kind /\ op[r].subscribe = sb

(***************************************************************************)
(* C1: no lost updates on plugin counters: once all concurrent             *)
(* plugin-install reports for one plugin id have completed, the stored     *)
(* count equals the number of reports that succeeded.                      *)
(***************************************************************************)
C1_NoLostPluginUpdates ==
  Quiescent => \A pid \in PluginIds : PluginCount(pid) = Cardinality(InstallsOf(pid))

(***************************************************************************)
(* C2: per-identity subscription updates are linearizable: when no report  *)
(* is in flight, the row of an identity is in a state that executing the   *)
(* successful add/done calls one at a time, in some total order consistent *)
(* with their real-time order, produces.                                   *)
(***************************************************************************)
C2_SubscribeLinearizable ==
  Quiescent => \A sb \in Subscribes :
                 SubscribeCount(sb) \in Linearizations(SubscribeCallsOf(sb), 0)

C4_CountPositive == \A row \in subs : row.count >= 1

\* two concurrent dones found the row at count 1: one has deleted it, the
\* other is about to act on the count it read
C4_Witness ==
  \E r, q \in Reqs :
    /\ Succeeded(r) /\ op[r].kind = "subscribe_done"
    /\ pc[q] = "write" /\ op[q] = op[r] /\ local[q] # NoRow
    /\ local[q].count = 1
    /\ SubscribeCount(op[q].subscribe) = 0

(***************************************************************************)
(* C5: subscribe_done, executed without interference: no matching row -    *)
(* store unchanged; count <= 1 - the row is deleted; count > 1 - the count *)
(* drops by exactly 1 and the row stays.  So add then done on a fresh      *)
(* identity leaves no row, and a further done changes nothing.             *)
(***************************************************************************)
C5_DoneStep ==
  \A r \in Reqs :
    (SubscribeUndisturbed(r, "subscribe_done") /\ Writes(r)) =>
      /\ plugins' = plugins
      /\ IF local[r] = NoRow THEN subs' = subs
         ELSE IF local[r].count <= 1 THEN subs' = subs \ {local[r]}
         ELSE subs' = (subs \ {local[r]})
                        \cup {[local[r] EXCEPT !.count = local[r].count - 1]}

C5_AddDoneLeavesNoRow ==
  \A sb \in Subscribes :
    (Sequential /\ Quiescent /\ Was(1, "subscribe_add", sb) /\ Was(2, "subscribe_done", sb)
       /\ (pc[3] = "idle" \/ Was(3, "subscribe_done", sb))
       /\ \A r \in Reqs : r > 3 => pc[r] = "idle")
    => SubscribeCount(sb) = 0

C5_DoneOutcomes == [][C5_DoneStep]_vars /\ []C5_AddDoneLeavesNoRow

\* add, done, done on a fresh identity, one after the other
C5_Witness ==
  /\ Sequential
  /\ Was(1, "subscribe_add", Matrix) /\ Was(2, "subscribe_done", Matrix)
  /\ Was(3, "subscribe_done", Matrix)
  /\ SubscribeCount(Matrix) = 0

(***************************************************************************)
(* C6: create-or-increment: plugin_install / subscribe_add, executed       *)
(* without interference, creates exactly one row with count 1 when the     *)
(* identity has no row and otherwise raises that row's count by exactly 1; *)
(* reports executed one after the other leave the count the contract       *)
(* gives (add, add, done: 1, 2, 1; a last done deletes the row).           *)
(***************************************************************************)
C6_BumpStep ==
  \A r \in Reqs :
    /\ (PluginUndisturbed(r) /\ Writes(r)) =>
         /\ subs' = subs
         /\ IF local[r] = NoRow
            THEN \E row \in plugins' :
                   /\ row \notin plugins /\ plugins' = plugins \cup {row}
                   /\ row.plugin_id = op[r].pid /\ row.count = 1
            ELSE plugins' = (plugins \ {local[r]})
                              \cup {[local[r] EXCEPT !.count = local[r].count + 1]}
    /\ (SubscribeUndisturbed(r, "subscribe_add") /\ Writes(r)) =>
         /\ plugins' = plugins
         /\ IF local[r] = NoRow
            THEN \E row \in subs' :
                   /\ row \notin subs /\ subs' = subs \cup {row}
                   /\ SameIdentity(row, op[r].subscribe) /\ row.count = 1
            ELSE subs' = (subs \ {local[r]})
                           \cup {[local[r] EXCEPT !.count = local[r].count + 1]}

\* the count the contract gives after the requests 1..n, run in that order
RECURSIVE ContractAfter(_, _)
ContractAfter(n, sb) ==
  IF n = 0 THEN 0
  ELSE IF op[n].kind \in {"subscribe_add", "subscribe_done"}
          /\ SameIdentity(op[n].subscribe, sb)
       THEN Contract(op[n].kind, ContractAfter(n - 1, sb))
       ELSE ContractAfter(n - 1, sb)

Arrived == Cardinality({r \in Reqs : pc[r] # "idle"})

C6_SequentialCounts ==
  (Sequential /\ Quiescent) =>
    /\ \A sb \in Subscribes : SubscribeCount(sb) = ContractAfter(Arrived, sb)
    /\ \A pid \in PluginIds : PluginCount(pid) = Cardinality(InstallsOf(pid))

C7_HitStep ==
  \A r \in Reqs :
    (pc[r] = "get" /\ pc'[r] # "get" /\ Live(cache, CacheKey(op[r]), now))
      => pc'[r] = "return"

C7_HitSkipsLoader == [][C7_HitStep]_vars

(***************************************************************************)
(* C8: cache TTL boundary: a query that finds an entry stored at time T    *)
(* and returns before T + ttl returns that entry's value unchanged,        *)
(* without a fresh load.                                                   *)
(***************************************************************************)
C8_ReadStep ==
  \A r \in Reqs :
    (pc[r] = "return" /\ pc'[r] = "done" /\ seen[r].live /\ now < seen[r].expires)
      => (result'[r] = seen[r].value /\ stats[r] = Unset)

C8_TtlBoundary == [][C8_ReadStep]_vars

(***************************************************************************)
(* C9: staleness is bounded by the ttl: a value returned by a query is     *)
(* what the tables held at some instant no more than ttl before the query  *)
(* returned; so when the tables last changed more than ttl ago, the value  *)
(* returned is what they hold now.                                         *)
(***************************************************************************)
C9_ReturnStep ==
  \A r \in Reqs :
    (pc[r] = "return" /\ pc'[r] = "done" /\ lastWrite + CacheTtl < now
       /\ result'[r] # CacheNone)
      => result'[r] = Loaded(op[r], plugins, subs)

C9_StalenessBounded == [][C9_ReturnStep]_vars

(***************************************************************************)
(* C10: a failed load leaves the cache unchanged: the error reaches the    *)
(* caller, the query that missed has stored no entry for its key and has   *)
(* changed no other entry, and a query for the same key made next misses   *)
(* again and goes to the tables.                                           *)
(***************************************************************************)
C10_FailStep ==
  \A r \in Reqs :
    LET k == CacheKey(op[r])
    IN /\ (pc[r] = "load" /\ pc'[r] = "error") =>
            /\ cache' = cache
            /\ result'[r] = Failure
            /\ (CacheGet(cache, k, now) \in {seen[r].value, CacheNone}
                  => statistic_miss(CacheGet(cache', k, now)))
       /\ (pc[r] = "get" /\ pc'[r] = "load") =>
            /\ Without(cache', k) = Without(cache, k)
            /\ (Has(cache', k) => cache' = cache)

C10_FailedLoadKeepsCache == [][C10_FailStep]_vars

\* a load has failed while the cache held an entry, and another query for
\* the same key has missed and is about to load
C10_Witness ==
  \E r, q \in Reqs :
    /\ pc[r] = "error" /\ IsQuery(op[r])
    /\ pc[q] = "load" /\ op[q] = op[r]
    /\ Len(cache) >= 1

(***************************************************************************)
(* The capacity of the cache.                                              *)
(***************************************************************************)
\* request r stores a key the cache does not hold while the cache is full
\* of entries that have not expired
EvictingStore(r) ==
  /\ pc[r] = "set" /\ pc'[r] = "return"
  /\ ~Has(cache, CacheKey(op[r]))
  /\ Len(cache) = CacheMaxsize
  /\ \A i \in 1..Len(cache) : ~Expired(cache[i], now)
\* the entry request r stores
Stored(r) == [key |-> CacheKey(op[r]), value |-> stats[r], expires |-> now + CacheTtl]

(***************************************************************************)
(* C11: capacity bound: the cache never holds more entries than its        *)
(* capacity, and storing a new key into a cache that is full of unexpired  *)
(* entries (capacity + 1 distinct keys) leaves exactly capacity entries.   *)
(***************************************************************************)
C11_StoreStep == \A r \in Reqs : EvictingStore(r) => Len(cache') = CacheMaxsize
C11_CapacityBound == [](Len(cache) <= CacheMaxsize) /\ [][C11_StoreStep]_vars

\* two queries have stored their keys, the later one into a full cache at
\* time 0: the cache holds exactly its capacity and the other's key is gone
C11_Witness ==
  \E r, q \in Reqs :
    /\ r # q /\ pc[r] = "return" /\ pc[q] = "return"
    /\ stats[r] # Unset /\ stats[q] # Unset
    /\ now = 0
    /\ Len(cache) = CacheMaxsize
    /\ cache[Len(cache)].key = CacheKey(op[r])
    /\ ~Has(cache, CacheKey(op[q]))

(***************************************************************************)
(* C12: eviction victim: when a store into a full cache evicts for         *)
(* capacity, the single entry evicted is the least recently used one, a    *)
(* read hit counting as a use just as a store does.                        *)
(***************************************************************************)
C12_LruStep ==
  \A r \in Reqs : EvictingStore(r) =>
    \A i \in 1..Len(cache) : ~Has(cache', cache[i].key) <=> cache[i].key = Head(lru)
C12_EvictsLeastRecentlyUsed == [][C12_LruStep]_vars

\* C12 as the code has it: the single entry evicted is the one stored
\* longest ago, whatever has been read since; the other entries stay, in
\* their order, and the new entry becomes the newest.
C12_OldestStep == \A r \in Reqs : EvictingStore(r) => cache' = Append(Tail(cache), Stored(r))
C12_EvictsOldestStored == [][C12_OldestStep]_vars

\* a query is at its set() of a new key, the cache is full and unexpired,
\* and the oldest stored entry has been read since the other was last used
C12_Witness ==
  /\ \E r \in Reqs : pc[r] = "set" /\ ~Has(cache, CacheKey(op[r]))
  /\ Len(cache) = CacheMaxsize
  /\ \A i \in 1..Len(cache) : ~Expired(cache[i], now)
  /\ Head(lru) # cache[1].key
  /\ lru[Len(lru)] = cache[1].key

(***************************************************************************)
(* Identity of subscription reports.                                       *)
(***************************************************************************)
ReportsSubscribe(r) == op[r].kind \in {"subscribe_add", "subscribe_done"}
NoIdentity(sb) == sb.tmdbid = PyNone /\ sb.doubanid = PyNone

(***************************************************************************)
(* C13: a subscription report that carries neither a tmdbid nor a doubanid *)
(* is rejected before any persistence access: it never gets past its read, *)
(* never succeeds, and no row is ever stored under a null identity.        *)
(***************************************************************************)
C13_InvalidIdentityRejected ==
  /\ \A r \in Reqs :
       (ReportsSubscribe(r) /\ NoIdentity(op[r].subscribe)) => pc[r] \in {"read", "error"}
  /\ \A row \in subs : ~NoIdentity(row)

(***************************************************************************)
(* C14: no partial increments on failure: a report that returns an error   *)
(* leaves every counter as it was, a batch that fails on a later item      *)
(* included.  So while every report so far has failed, the tables are      *)
(* still empty.                                                            *)
(***************************************************************************)
C14_NoPartialIncrements ==
  (\A r \in Reqs : pc[r] \in {"idle", "error"}) => plugins = {} /\ subs = {}

(***************************************************************************)
(* C15: first-writer-wins attributes: once a subscription row exists, no   *)
(* step changes anything of it but its count; a later add of the same      *)
(* identity with other name/type/ids leaves the first report's values.     *)
(***************************************************************************)
C15_AttributesStep ==
  \A row \in subs : \A new \in subs' :
    new.id = row.id => [new EXCEPT !.count = row.count] = row
C15_FirstWriterWins == [][C15_AttributesStep]_vars

\* an add of Reloaded has succeeded on the row that Matrix created
C15_Witness ==
  /\ \E r \in Reqs : Was(r, "subscribe_add", Reloaded)
  /\ \E row \in subs : row.name = "Matrix" /\ row.doubanid = PyNone /\ row.count = 2

(***************************************************************************)
(* Identity resolution with `mediaId` as the mid of a payload: the handler *)
(* looks up mediaId(payload) with the payload's season, the row it finds   *)
(* has that identifier and that season (so reports that differ in season   *)
(* never share a row), and reports of one (mid, season) find one row, for  *)
(* no two rows share an identity.                                          *)
(***************************************************************************)
IdentityResolution(mediaId(_)) ==
  /\ \A r \in Reqs : ReportsSubscribe(r) =>
       /\ Mid(op[r].subscribe) = mediaId(op[r].subscribe)
       /\ (pc[r] = "write" /\ local[r] # NoRow) =>
            /\ RowMid(local[r]) = mediaId(op[r].subscribe)
            /\ local[r].season = op[r].subscribe.season
  /\ \A a, b \in subs : SameIdentity(a, b) => a = b

\* the numeric id whenever the report carries one
PresentMid(sb) == IF sb.tmdbid # PyNone THEN sb.tmdbid ELSE sb.doubanid
\* the numeric id when the report carries one that is not 0
NonZeroMid(sb) ==
  IF sb.tmdbid.t = "int" /\ sb.tmdbid.i # 0 THEN sb.tmdbid ELSE sb.doubanid

Loading(k) == {r \in Reqs : pc[r] \in {"load", "set"} /\ CacheKey(op[r]) = k}
C17_SingleFlight == \A o \in QueryOps : Cardinality(Loading(CacheKey(o))) <= 1

(***************************************************************************)
(* C18: reports never touch the cache: no step of a report handler         *)
(* (single or batch, plugin or subscription) changes the cache, and every  *)
(* change of the cache is a step of a statistic query.                     *)
(***************************************************************************)
Steps(r) == pc'[r] # pc[r] \/ todo'[r] # todo[r]
C18_FrameStep ==
  /\ \A r \in Reqs : (Steps(r) /\ ~IsQuery(op'[r])) => cache' = cache
  /\ cache' # cache => \E r \in Reqs : Steps(r) /\ IsQuery(op[r])
C18_ReportsLeaveCache == [][C18_FrameStep]_vars

\* an install has succeeded while the cache holds the plugin statistics, and
\* the cached mapping is no longer what the table holds
C18_Witness ==
  /\ \E r \in Reqs : Succeeded(r) /\ op[r].kind = "plugin_install"
  /\ Has(cache, <<"plugin">>)
  /\ Entry(cache, <<"plugin">>).value # PluginMapping(plugins)

(***************************************************************************)
(* C19: plugin counters are increment-only: under any interleaving of      *)
(* reports, no step deletes a plugin row or lowers its count.              *)
(***************************************************************************)
C19_GrowStep ==
  \A row \in plugins : \E new \in plugins' :
    new.plugin_id = row.plugin_id /\ new.count >= row.count
C19_PluginCountsOnlyGrow == [][C19_GrowStep]_vars

(***************************************************************************)
(* C20: a query that completes without error returns a loaded snapshot,    *)
(* never None, also when the entry it stored has expired or has been       *)
(* evicted by concurrent queries before it is read back.                   *)
(***************************************************************************)
C20_ReturnStep ==
  \A r \in Reqs : (pc[r] = "return" /\ pc'[r] = "done") => result'[r] # CacheNone
C20_NeverReturnsNone == [][C20_ReturnStep]_vars

=============================================================================
